---- MODULE Spec2Model ----
(***************************************************************************)
(* A model of PostgresRepository (node-dry-pg): the bounded-retry          *)
(* waitForConnection loop, the executeQuery passthrough and the            *)
(* transaction bracket (connect / BEGIN / func / COMMIT / ROLLBACK /       *)
(* release), together with the pool and the database engine they talk to.  *)
(*                                                                         *)
(* Every `await` of the class is one step of the model: the action that    *)
(* models an await's completion also performs the synchronous code that    *)
(* follows it up to the next await (or to the end of the call).            *)
(***************************************************************************)
EXTENDS Integers, Sequences, FiniteSets, TLC

\* ------------------------------------------------------------------ bounds
MaxRetries == 3     \* largest `retries` argument tried
MaxCalls   == 2     \* executeQuery and transaction calls made, in all
MaxConn    == 2     \* connections the pool can lease
MaxWrites  == 1     \* rows a unit of work inserts at most

\* ------------------------------------------------------------------ values
\* Errors the pool can raise for a plain query (identity = the string).
Errors == {"ECONNREFUSED", "relation does not exist"}
\* The error waitForConnection makes up when it has seen none.
GenericError == "Failed to connect to database"
\* JavaScript's undefined.
Undefined == "undefined"
\* Values a unit of work can resolve to (any value other than undefined).
Values == {"V1"}

RetryArgs == 0..MaxRetries
\* `backoffMs` arguments tried (milliseconds).
BackoffArgs == {0, 200}
ExecIds   == 1..MaxCalls
TxIds     == 1..MaxCalls
Conns     == 1..MaxConn
NoConn    == 0

VARIABLES
  \* ---- waitForConnection (one call)
  wpc,        \* "idle" | "probe" | "sleep" | "resolved" | "rejected"
  retries,    \* the argument `retries`
  backoffMs,  \* the argument `backoffMs`
  i,          \* the loop counter
  lastError,  \* the local lastError (Undefined until a probe failed)
  probes,     \* outcomes of the SELECT 1 probes issued, in order ("ok" or an error)
  sleeps,     \* the durations of the sleep(backoffMs) calls made, in order
  werror,     \* the error the call rejected with (Undefined unless rejected)
  \* ---- executeQuery (calls ExecIds)
  epc,        \* "idle" | "query" | "returned" | "threw"
  poolCalls,  \* the pool.query(query, args) invocations the call made: the args passed
  poolReply,  \* what the pool answered: [kind, error, rows, rowCount]
  eout,       \* what the call gave its caller: [kind, error, rows, rowCount]
  ewhen,      \* the moment the pool ran the query: [uncommitted, done], the rows
              \* in-flight transaction calls had inserted and the calls completed
  \* ---- transaction (calls TxIds)
  tpc,        \* "idle" | "connect" | "begin" | "func" | "commit" | "rollback" | "done"
  client,     \* the local `client` (NoConn outside its scope)
  caught,     \* the `error` of the catch block (Undefined while none was caught)
  unitOut,    \* the value func's promise resolved to (Undefined while it has not)
  written,    \* the rows func inserted through `client`
  readDone,   \* func ran its SELECT through `client`
  uread,      \* the rows that SELECT returned
  log,        \* the statements and releases the call issued, in order: [op, ok, own]
  outcome,    \* what the call gave its caller: [kind, val]
  \* ---- the pool and the database behind it
  leased,     \* connections checked out of the pool
  committed,  \* the committed rows of the table
  pending,    \* per connection: rows inserted in its open, uncommitted transaction
  \* ---- the pool's 'error' event
  console,    \* the last line the 'error' listener logged (<<>> if none)
  crashed     \* the process died of an 'error' event nobody listened to

waitVars == <<wpc, retries, backoffMs, i, lastError, probes, sleeps, werror>>
execVars == <<epc, poolCalls, poolReply, eout, ewhen>>
txVars == <<tpc, client, caught, unitOut, written, readDone, uread, log, outcome,
            leased, committed, pending>>
idleVars == <<console, crashed>>
vars == <<waitVars, execVars, txVars, idleVars>>

\* ------------------------------------------------------ waitForConnection

\* `lastError ?? new Error('Failed to connect to database')`
ThrownAfterLoop(le) == IF le = Undefined THEN GenericError ELSE le

\* The for-loop's test `i <= retries`, taken with counter value n: either the
\* body is entered (the probe is issued) or the loop is left and the call throws.
LoopTest(n, r, le) ==
  IF n <= r
    THEN /\ wpc' = "probe"
         /\ werror' = Undefined
    ELSE /\ wpc' = "rejected"
         /\ werror' = ThrownAfterLoop(le)

\* (mutant) a do-while loop: the first probe is issued before any test.
WaitForConnectionDoWhile(r, b) ==
  /\ wpc = "idle"
  /\ retries' = r
  /\ backoffMs' = b
  /\ i' = 1
  /\ lastError' = Undefined
  /\ wpc' = "probe"
  /\ werror' = Undefined
  /\ UNCHANGED <<probes, sleeps>>
  /\ UNCHANGED <<execVars, txVars, idleVars>>

\* The call: lastError is undefined, i = 1, and the loop test is taken.
WaitForConnection(r, b) ==
  /\ wpc = "idle"
  /\ retries' = r
  /\ backoffMs' = b
  /\ i' = 1
  /\ lastError' = Undefined
  /\ LoopTest(1, r, Undefined)
  /\ UNCHANGED <<probes, sleeps>>
  /\ UNCHANGED <<execVars, txVars, idleVars>>

\* (mutant) the `return` after a successful probe is missing.
ProbeSucceedsNoReturn ==
  /\ wpc = "probe"
  /\ probes' = Append(probes, "ok")
  /\ wpc' = "sleep"
  /\ UNCHANGED <<retries, backoffMs, i, lastError, sleeps, werror>>
  /\ UNCHANGED <<execVars, txVars, idleVars>>

\* `await this.connectionPool.query('SELECT 1')` resolves: return.
ProbeSucceeds ==
  /\ wpc = "probe"
  /\ probes' = Append(probes, "ok")
  /\ wpc' = "resolved"
  /\ UNCHANGED <<retries, backoffMs, i, lastError, sleeps, werror>>
  /\ UNCHANGED <<execVars, txVars, idleVars>>

\* (mutant) only the first error is kept: `lastError = lastError ?? error`.
ProbeFailsKeepsFirst(e) ==
  /\ wpc = "probe"
  /\ probes' = Append(probes, e)
  /\ lastError' = IF lastError = Undefined THEN e ELSE lastError
  /\ wpc' = "sleep"
  /\ UNCHANGED <<retries, backoffMs, i, sleeps, werror>>
  /\ UNCHANGED <<execVars, txVars, idleVars>>

\* The probe rejects with e: the catch block records it; the sleep is started.
ProbeFails(e) ==
  /\ wpc = "probe"
  /\ probes' = Append(probes, e)
  /\ lastError' = e
  /\ wpc' = "sleep"
  /\ UNCHANGED <<retries, backoffMs, i, sleeps, werror>>
  /\ UNCHANGED <<execVars, txVars, idleVars>>

\* (mutant) the loop has no `i++`.
SleepDoneNoIncrement ==
  /\ wpc = "sleep"
  /\ sleeps' = Append(sleeps, backoffMs)
  /\ i' = i
  /\ LoopTest(i, retries, lastError)
  /\ UNCHANGED <<retries, backoffMs, lastError, probes>>
  /\ UNCHANGED <<execVars, txVars, idleVars>>

\* `await sleep(backoffMs)` completes: i++ and the loop test is taken again.
SleepDone ==
  /\ wpc = "sleep"
  /\ sleeps' = Append(sleeps, backoffMs)
  /\ i' = i + 1
  /\ LoopTest(i + 1, retries, lastError)
  /\ UNCHANGED <<retries, backoffMs, lastError, probes>>
  /\ UNCHANGED <<execVars, txVars, idleVars>>

WaitInit ==
  /\ wpc = "idle"
  /\ retries = 0
  /\ backoffMs = 0
  /\ i = 0
  /\ lastError = Undefined
  /\ probes = <<>>
  /\ sleeps = <<>>
  /\ werror = Undefined

\* ------------------------------------------------------------ executeQuery

\* What a caller passes for the optional parameter `args` when it passes none.
NoArgs == <<Undefined>>
ArgChoices == {NoArgs, <<>>}

\* `if (args === undefined) { args = [] }`
DefaultArgs(a) == IF a = NoArgs THEN <<>> ELSE a

\* `return resultSet`: the pool's result is handed on as it is.
ExecuteQueryReturn(resultSet) == resultSet

\* (mutant) the error is wrapped in a new one.
ExecuteQueryThrowWrapped(error) == "query failed"

\* `catch (error) { console.error(...); throw error }`: the pool's error is rethrown.
ExecuteQueryThrow(error) == error

NoReply == [kind |-> "none", error |-> Undefined, rows |-> {}, rowCount |-> 0]

\* Number of executeQuery and transaction calls made so far.
CallsMade ==
  Cardinality({q \in ExecIds : epc[q] # "idle"}) + Cardinality({t \in TxIds : tpc[t] # "idle"})

\* Call identifiers are handed out in order: k is the next one of its kind.
NextId(pcs, k) == pcs[k] = "idle" /\ (IF k = 1 THEN TRUE ELSE pcs[k - 1] # "idle")

\* Transaction calls that have started and not yet completed.
InFlight == {t \in TxIds : tpc[t] \notin {"idle", "done"}}
\* Transaction calls that have completed.
Completed == {t \in TxIds : tpc[t] = "done"}

\* The moment: what in-flight transaction calls have inserted so far, and the
\* transaction calls that have completed.
Standing ==
  [uncommitted |-> UNION {written[t] : t \in InFlight}, done |-> Completed]

\* The rows a statement run on connection c sees: the committed rows and the
\* rows of c's own open transaction.
Visible(c) == committed \cup pending[c]

\* The call: args is defaulted and `await this.connectionPool.query(query, args)` starts.
ExecuteQuery(q, a) ==
  /\ CallsMade < MaxCalls
  /\ NextId(epc, q)
  /\ epc' = [epc EXCEPT ![q] = "query"]
  /\ poolCalls' = [poolCalls EXCEPT ![q] = Append(@, DefaultArgs(a))]
  /\ UNCHANGED <<poolReply, eout, ewhen>>
  /\ UNCHANGED <<waitVars, txVars, idleVars>>

\* The pool runs the query on a connection of its own choice that is not
\* checked out, and resolves; the call logs and returns the result.
PoolQueryResolves(q, c) ==
  /\ epc[q] = "query"
  /\ c \in Conns \ leased
  /\ LET resultSet == [kind |-> "resolved", error |-> Undefined,
                       rows |-> Visible(c), rowCount |-> Cardinality(Visible(c))]
     IN /\ poolReply' = [poolReply EXCEPT ![q] = resultSet]
        /\ eout' = [eout EXCEPT ![q] = ExecuteQueryReturn(resultSet)]
  /\ ewhen' = [ewhen EXCEPT ![q] = Standing]
  /\ epc' = [epc EXCEPT ![q] = "returned"]
  /\ UNCHANGED poolCalls
  /\ UNCHANGED <<waitVars, txVars, idleVars>>

\* The pool rejects with e; the call logs the error and throws it.
PoolQueryRejects(q, e) ==
  /\ epc[q] = "query"
  /\ poolReply' = [poolReply EXCEPT ![q] =
                     [kind |-> "rejected", error |-> e, rows |-> {}, rowCount |-> 0]]
  /\ eout' = [eout EXCEPT ![q] =
                [kind |-> "rejected", error |-> ExecuteQueryThrow(e),
                 rows |-> {}, rowCount |-> 0]]
  /\ ewhen' = [ewhen EXCEPT ![q] = Standing]
  /\ epc' = [epc EXCEPT ![q] = "threw"]
  /\ UNCHANGED poolCalls
  /\ UNCHANGED <<waitVars, txVars, idleVars>>

ExecInit ==
  /\ epc = [q \in ExecIds |-> "idle"]
  /\ poolCalls = [q \in ExecIds |-> <<>>]
  /\ poolReply = [q \in ExecIds |-> NoReply]
  /\ eout = [q \in ExecIds |-> NoReply]
  /\ ewhen = [q \in ExecIds |-> [uncommitted |-> {}, done |-> {}]]

\* ------------------------------------------------------------- transaction

\* The errors of a transaction call, named by the operation that raised them.
ConnectError  == "error raised by connect()"
BeginError    == "error raised by BEGIN"
UnitError     == "error raised by func"
CommitError   == "error raised by COMMIT"
RollbackError == "error raised by ROLLBACK"

\* (mutant) the try block ends with ROLLBACK.
TryLastStatementRollback == "ROLLBACK"

\* The statement the try block issues after func resolved.
TryLastStatement == "COMMIT"

\* (mutant) the catch block commits.
CatchStatementCommit == "COMMIT"

\* The statement the catch block issues.
CatchStatement == "ROLLBACK"

\* (mutant) the catch block throws an error of its own.
RethrowNew(error) == "transaction failed"

\* `throw error` of the catch block, reached when its statement resolved.
Rethrow(error) == error

\* What the call resolves to when func resolved to v and the try block
\* completed: func's value is awaited and dropped (Promise<void>).
TransactionReturn(v) == Undefined

\* (mutant) no finally: the release follows the statement and is skipped when
\* the statement rejected.
ReleaseAfterStatement(lg) ==
  IF lg[Len(lg)].ok
    THEN Append(lg, [op |-> "release", ok |-> TRUE, own |-> TRUE])
    ELSE lg

\* (mutant) the client is never released.
FinallyBlockMissing(lg) == lg

\* `finally { client.release() }`: the log after the block, given the log before.
FinallyBlock(lg) == Append(lg, [op |-> "release", ok |-> TRUE, own |-> TRUE])

\* Number of times a log releases the call's connection.
Releases(lg) == Cardinality({k \in DOMAIN lg : lg[k].op = "release"})

\* The rows of func's k-th INSERT in call t.
Row(t, k) == <<t, k>>

\* The database engine (PostgreSQL) on a statement of connection c.  A resolved
\* COMMIT makes the rows of c's open transaction committed, a resolved ROLLBACK
\* discards them; a rejected statement aborts c's open transaction, whose rows
\* are discarded.
CommittedAfter(stmt, ok, c) ==
  IF ok /\ stmt = "COMMIT" THEN committed \cup pending[c] ELSE committed

PendingAfter(stmt, ok, c) ==
  IF ~ok \/ stmt \in {"COMMIT", "ROLLBACK"}
    THEN [pending EXCEPT ![c] = {}]
    ELSE pending

\* (mutant) statements go through the pool, which runs each on a connection
\* of its own choice.
TargetPool(t) == CHOOSE c \in Conns : c # client[t]

\* The connection a statement of call t goes to: `client.query(...)`.
Target(t) == client[t]

\* Call t issues `client.query(stmt)` and the engine answers ok or not; the log
\* notes whether the statement went to the connection the call checked out.
Issue(t, stmt, ok, lg) ==
  Append(lg, [op |-> stmt, ok |-> ok, own |-> Target(t) = client[t]])

\* The call completes with `out`: the finally block runs, then the caller sees out.
\* The local `client` goes out of scope.
Complete(t, lg, out) ==
  LET lg2 == FinallyBlock(lg)
  IN /\ log' = [log EXCEPT ![t] = lg2]
     /\ leased' = IF Releases(lg2) > 0 THEN leased \ {client[t]} ELSE leased
     /\ client' = [client EXCEPT ![t] = NoConn]
     /\ outcome' = [outcome EXCEPT ![t] = out]
     /\ tpc' = [tpc EXCEPT ![t] = "done"]

\* The call: `await this.connectionPool.connect()` starts.
Transaction(t) ==
  /\ CallsMade < MaxCalls
  /\ NextId(tpc, t)
  /\ tpc' = [tpc EXCEPT ![t] = "connect"]
  /\ UNCHANGED <<client, caught, unitOut, written, readDone, uread, log, outcome,
                 leased, committed, pending>>
  /\ UNCHANGED <<waitVars, execVars, idleVars>>

\* connect() resolves with a connection that is not checked out; BEGIN is issued.
ConnectResolves(t, c) ==
  /\ tpc[t] = "connect"
  /\ c \in Conns \ leased
  /\ client' = [client EXCEPT ![t] = c]
  /\ leased' = leased \cup {c}
  /\ tpc' = [tpc EXCEPT ![t] = "begin"]
  /\ UNCHANGED <<caught, unitOut, written, readDone, uread, log, outcome,
                 committed, pending>>
  /\ UNCHANGED <<waitVars, execVars, idleVars>>

\* (mutant) connect() is awaited inside the try statement: the finally block
\* runs although no connection was checked out.
ConnectRejectsInsideTry(t) ==
  /\ tpc[t] = "connect"
  /\ outcome' = [outcome EXCEPT ![t] = [kind |-> "threw", val |-> ConnectError]]
  /\ log' = [log EXCEPT ![t] = FinallyBlock(@)]
  /\ tpc' = [tpc EXCEPT ![t] = "done"]
  /\ UNCHANGED <<client, caught, unitOut, written, readDone, uread,
                 leased, committed, pending>>
  /\ UNCHANGED <<waitVars, execVars, idleVars>>

\* connect() rejects: the call rejects with that error, outside the try statement.
ConnectRejects(t) ==
  /\ tpc[t] = "connect"
  /\ outcome' = [outcome EXCEPT ![t] = [kind |-> "threw", val |-> ConnectError]]
  /\ tpc' = [tpc EXCEPT ![t] = "done"]
  /\ UNCHANGED <<client, caught, unitOut, written, readDone, uread, log,
                 leased, committed, pending>>
  /\ UNCHANGED <<waitVars, execVars, idleVars>>

\* BEGIN resolves; func(client) is called.
BeginResolves(t) ==
  /\ tpc[t] = "begin"
  /\ log' = [log EXCEPT ![t] = Issue(t, "BEGIN", TRUE, @)]
  /\ committed' = CommittedAfter("BEGIN", TRUE, Target(t))
  /\ pending' = PendingAfter("BEGIN", TRUE, Target(t))
  /\ tpc' = [tpc EXCEPT ![t] = "func"]
  /\ UNCHANGED <<client, caught, unitOut, written, readDone, uread, outcome, leased>>
  /\ UNCHANGED <<waitVars, execVars, idleVars>>

\* BEGIN rejects: the catch block is entered and issues its statement.
BeginRejects(t) ==
  /\ tpc[t] = "begin"
  /\ log' = [log EXCEPT ![t] = Issue(t, "BEGIN", FALSE, @)]
  /\ committed' = CommittedAfter("BEGIN", FALSE, Target(t))
  /\ pending' = PendingAfter("BEGIN", FALSE, Target(t))
  /\ caught' = [caught EXCEPT ![t] = BeginError]
  /\ tpc' = [tpc EXCEPT ![t] = "rollback"]
  /\ UNCHANGED <<client, unitOut, written, readDone, uread, outcome, leased>>
  /\ UNCHANGED <<waitVars, execVars, idleVars>>

\* func inserts a row through the client it was given.
UnitWrites(t) ==
  /\ tpc[t] = "func"
  /\ ~readDone[t]
  /\ Cardinality(written[t]) < MaxWrites
  /\ LET row == Row(t, Cardinality(written[t]) + 1)
     IN /\ written' = [written EXCEPT ![t] = @ \cup {row}]
        /\ pending' = [pending EXCEPT ![Target(t)] = @ \cup {row}]
  /\ log' = [log EXCEPT ![t] = Issue(t, "INSERT", TRUE, @)]
  /\ UNCHANGED <<tpc, client, caught, unitOut, readDone, uread, outcome,
                 leased, committed>>
  /\ UNCHANGED <<waitVars, execVars, idleVars>>

\* func reads the table through the client it was given.
UnitReads(t) ==
  /\ tpc[t] = "func"
  /\ ~readDone[t]
  /\ readDone' = [readDone EXCEPT ![t] = TRUE]
  /\ uread' = [uread EXCEPT ![t] = Visible(Target(t))]
  /\ log' = [log EXCEPT ![t] = Issue(t, "SELECT", TRUE, @)]
  /\ UNCHANGED <<tpc, client, caught, unitOut, written, outcome,
                 leased, committed, pending>>
  /\ UNCHANGED <<waitVars, execVars, idleVars>>

\* func's promise resolves to v; the try block issues its last statement.
UnitResolves(t, v) ==
  /\ tpc[t] = "func"
  /\ unitOut' = [unitOut EXCEPT ![t] = v]
  /\ tpc' = [tpc EXCEPT ![t] = "commit"]
  /\ UNCHANGED <<client, caught, written, readDone, uread, log, outcome,
                 leased, committed, pending>>
  /\ UNCHANGED <<waitVars, execVars, idleVars>>

\* func's promise rejects: the catch block is entered and issues its statement.
UnitRejects(t) ==
  /\ tpc[t] = "func"
  /\ caught' = [caught EXCEPT ![t] = UnitError]
  /\ tpc' = [tpc EXCEPT ![t] = "rollback"]
  /\ UNCHANGED <<client, unitOut, written, readDone, uread, log, outcome,
                 leased, committed, pending>>
  /\ UNCHANGED <<waitVars, execVars, idleVars>>

\* The try block's last statement resolves: finally, then the call resolves.
CommitResolves(t) ==
  /\ tpc[t] = "commit"
  /\ committed' = CommittedAfter(TryLastStatement, TRUE, Target(t))
  /\ pending' = PendingAfter(TryLastStatement, TRUE, Target(t))
  /\ Complete(t, Issue(t, TryLastStatement, TRUE, log[t]),
              [kind |-> "returned", val |-> TransactionReturn(unitOut[t])])
  /\ UNCHANGED <<caught, unitOut, written, readDone, uread>>
  /\ UNCHANGED <<waitVars, execVars, idleVars>>

\* The try block's last statement rejects: the catch block issues its statement.
CommitRejects(t) ==
  /\ tpc[t] = "commit"
  /\ log' = [log EXCEPT ![t] = Issue(t, TryLastStatement, FALSE, @)]
  /\ committed' = CommittedAfter(TryLastStatement, FALSE, Target(t))
  /\ pending' = PendingAfter(TryLastStatement, FALSE, Target(t))
  /\ caught' = [caught EXCEPT ![t] = CommitError]
  /\ tpc' = [tpc EXCEPT ![t] = "rollback"]
  /\ UNCHANGED <<client, unitOut, written, readDone, uread, outcome, leased>>
  /\ UNCHANGED <<waitVars, execVars, idleVars>>

\* (mutant) the catch block ends without `throw error`: the call resolves.
RollbackResolvesSwallows(t) ==
  /\ tpc[t] = "rollback"
  /\ committed' = CommittedAfter(CatchStatement, TRUE, Target(t))
  /\ pending' = PendingAfter(CatchStatement, TRUE, Target(t))
  /\ Complete(t, Issue(t, CatchStatement, TRUE, log[t]),
              [kind |-> "returned", val |-> Undefined])
  /\ UNCHANGED <<caught, unitOut, written, readDone, uread>>
  /\ UNCHANGED <<waitVars, execVars, idleVars>>

\* The catch block's statement resolves: `throw error`, finally, the call rejects.
RollbackResolves(t) ==
  /\ tpc[t] = "rollback"
  /\ committed' = CommittedAfter(CatchStatement, TRUE, Target(t))
  /\ pending' = PendingAfter(CatchStatement, TRUE, Target(t))
  /\ Complete(t, Issue(t, CatchStatement, TRUE, log[t]),
              [kind |-> "threw", val |-> Rethrow(caught[t])])
  /\ UNCHANGED <<caught, unitOut, written, readDone, uread>>
  /\ UNCHANGED <<waitVars, execVars, idleVars>>

\* The catch block's statement rejects: its error leaves the catch block in
\* place of `error`; finally, the call rejects.
RollbackRejects(t) ==
  /\ tpc[t] = "rollback"
  /\ committed' = CommittedAfter(CatchStatement, FALSE, Target(t))
  /\ pending' = PendingAfter(CatchStatement, FALSE, Target(t))
  /\ Complete(t, Issue(t, CatchStatement, FALSE, log[t]),
              [kind |-> "threw", val |-> RollbackError])
  /\ UNCHANGED <<caught, unitOut, written, readDone, uread>>
  /\ UNCHANGED <<waitVars, execVars, idleVars>>

TxInit ==
  /\ tpc = [t \in TxIds |-> "idle"]
  /\ client = [t \in TxIds |-> NoConn]
  /\ caught = [t \in TxIds |-> Undefined]
  /\ unitOut = [t \in TxIds |-> Undefined]
  /\ written = [t \in TxIds |-> {}]
  /\ readDone = [t \in TxIds |-> FALSE]
  /\ uread = [t \in TxIds |-> {}]
  /\ log = [t \in TxIds |-> <<>>]
  /\ outcome = [t \in TxIds |-> [kind |-> "none", val |-> Undefined]]
  /\ leased = {}
  /\ committed = {}
  /\ pending = [c \in Conns |-> {}]

\* ------------------------------------------------- the pool's 'error' event

\* Errors the pool reports on an idle connection.
IdleErrors == {"Connection terminated unexpectedly"}

\* (mutant) the constructor registers no listener.
ListenerMissing == FALSE

\* The constructor registers a listener: `this.connectionPool.on('error', ...)`.
ListenerRegistered == TRUE

\* The listener: `(err) => console.log('Idle postgres connection errored:', err.message)`.
IdleErrorListener(message) == <<"Idle postgres connection errored:", message>>

\* The pool emits 'error' for an idle connection.  The listener logs it; an
\* 'error' event without a listener is thrown and ends the process.
PoolIdleError(message) ==
  /\ IF ListenerRegistered
       THEN console' = IdleErrorListener(message) /\ crashed' = crashed
       ELSE console' = console /\ crashed' = TRUE
  /\ UNCHANGED <<waitVars, execVars, txVars>>

IdleInit ==
  /\ console = <<>>
  /\ crashed = FALSE

\* ---------------------------------------------------------- specifications

Init == WaitInit /\ ExecInit /\ TxInit /\ IdleInit

\* The queries and transactions of one client, interleaved at their awaits.
Next ==
  \/ \E q \in ExecIds, a \in ArgChoices : ExecuteQuery(q, a)
  \/ \E q \in ExecIds, c \in Conns : PoolQueryResolves(q, c)
  \/ \E q \in ExecIds, e \in Errors : PoolQueryRejects(q, e)
  \/ \E t \in TxIds : Transaction(t)
  \/ \E t \in TxIds, c \in Conns : ConnectResolves(t, c)
  \/ \E t \in TxIds : ConnectRejects(t)
  \/ \E t \in TxIds : BeginResolves(t)
  \/ \E t \in TxIds : BeginRejects(t)
  \/ \E t \in TxIds : UnitWrites(t)
  \/ \E t \in TxIds : UnitReads(t)
  \/ \E t \in TxIds, v \in Values : UnitResolves(t, v)
  \/ \E t \in TxIds : UnitRejects(t)
  \/ \E t \in TxIds : CommitResolves(t)
  \/ \E t \in TxIds : CommitRejects(t)
  \/ \E t \in TxIds : RollbackResolves(t)
  \/ \E t \in TxIds : RollbackRejects(t)

Spec == Init /\ [][Next]_vars

\* One waitForConnection call.
WaitNext ==
  \/ \E r \in RetryArgs, b \in BackoffArgs : WaitForConnection(r, b)
  \/ ProbeSucceeds
  \/ \E e \in Errors : ProbeFails(e)
  \/ SleepDone

SpecWait == Init /\ [][WaitNext]_vars

\* The pool answers every probe query and every timer fires: a pending
\* `await` of waitForConnection is eventually resumed.
SpecWaitFair ==
  /\ SpecWait
  /\ WF_vars(ProbeSucceeds \/ \E e \in Errors : ProbeFails(e))
  /\ WF_vars(SleepDone)

\* One client: it either waits for a connection or makes queries and
\* transactions, and the pool emits its 'error' event at any moment.
IdleNext ==
  \/ CallsMade = 0 /\ WaitNext
  \/ wpc = "idle" /\ Next
  \/ \E m \in IdleErrors : PoolIdleError(m)

SpecIdle == Init /\ [][IdleNext]_vars

\* ------------------------------------------------------------------ claims

Done(t) == tpc[t] = "done"
\* connect() resolved for call t (BEGIN is issued as soon as it has).
Acquired(t) == tpc[t] \notin {"idle", "connect"} /\ outcome[t].val # ConnectError
Issued(t, op) == \E k \in DOMAIN log[t] : log[t][k].op = op
Resolved(t, op) == \E k \in DOMAIN log[t] : log[t][k].op = op /\ log[t][k].ok
Rejected(t, op) == \E k \in DOMAIN log[t] : log[t][k].op = op /\ ~log[t][k].ok
\* Calls that hold a connection.
Holders == {t \in TxIds : client[t] # NoConn}

\* C1: a transaction call that acquired a connection has released it exactly
\* once when it completes, whichever of BEGIN, func, COMMIT and ROLLBACK failed;
\* it releases nothing before it completes, and the pool's leased connections
\* are exactly those of the calls still holding one.
C1_ReleasedExactlyOnce ==
  /\ \A t \in TxIds :
       /\ Done(t) /\ Acquired(t) => Releases(log[t]) = 1
       /\ ~Done(t) => Releases(log[t]) = 0
  /\ leased = {client[t] : t \in Holders}
  /\ \A t, u \in Holders : client[t] = client[u] => t = u

\* C1 witness: a call whose func rejected and whose ROLLBACK rejected too has
\* completed with one release.
C1_Witness ==
  \E t \in TxIds :
    /\ Done(t) /\ caught[t] = UnitError /\ Rejected(t, "ROLLBACK")
    /\ Releases(log[t]) = 1 /\ leased = {}

\* C2: when func rejected (BEGIN had resolved) and ROLLBACK resolved, ROLLBACK
\* was issued on the call's own connection, COMMIT was never issued, and the
\* call rejected with func's error.
C2_UnitFailureRollsBack ==
  \A t \in TxIds :
    Done(t) /\ caught[t] = UnitError /\ ~Rejected(t, "ROLLBACK") =>
      /\ Resolved(t, "BEGIN")
      /\ \E k \in DOMAIN log[t] :
           log[t][k].op = "ROLLBACK" /\ log[t][k].ok /\ log[t][k].own
      /\ ~Issued(t, "COMMIT")
      /\ outcome[t] = [kind |-> "threw", val |-> UnitError]

\* C2 witness: func inserted a row and rejected, ROLLBACK resolved, the call
\* has completed.
C2_Witness ==
  \E t \in TxIds :
    /\ Done(t) /\ caught[t] = UnitError /\ written[t] # {}
    /\ Resolved(t, "ROLLBACK") /\ outcome[t].val = UnitError

\* C3 (as claimed): when func or COMMIT failed and the ROLLBACK that follows
\* fails too, the call rejects with the first failure, not with ROLLBACK's.
C3_PrimaryErrorWins ==
  \A t \in TxIds :
    Done(t) /\ caught[t] \in {UnitError, CommitError} /\ Rejected(t, "ROLLBACK") =>
      outcome[t] = [kind |-> "threw", val |-> caught[t]]

\* C4 (as claimed): when func resolved to v and COMMIT resolved, the call
\* resolves to v.
C4_ReturnsUnitValue ==
  \A t \in TxIds :
    Done(t) /\ unitOut[t] \in Values /\ Resolved(t, "COMMIT") =>
      outcome[t] = [kind |-> "returned", val |-> unitOut[t]]

\* C5: a successful probe is the last one: when the k-th probe succeeds (the
\* k-1 before it having failed), the call has resolved after exactly k probes,
\* k <= retries, and no probe follows.
C5_StopsAtFirstSuccess ==
  /\ \A k \in DOMAIN probes :
       probes[k] = "ok" =>
         /\ k = Len(probes)
         /\ k <= retries
         /\ wpc = "resolved"
         /\ werror = Undefined
  /\ wpc = "resolved" => probes # <<>> /\ probes[Len(probes)] = "ok"

\* C5 witness: retries = 3, the first probe failed and the second succeeded.
C5_Witness ==
  /\ wpc = "resolved" /\ retries = 3
  /\ Len(probes) = 2 /\ probes[1] # "ok" /\ probes[2] = "ok"

\* C6: called with retries = 0, the call rejects (with the error it makes up)
\* having issued no query and slept not at all.
C6_ZeroRetriesFails ==
  wpc # "idle" /\ retries = 0 =>
    /\ wpc = "rejected"
    /\ werror = GenericError
    /\ probes = <<>>
    /\ sleeps = <<>>

\* C6 witness: a call with retries = 0 has rejected.
C6_Witness == wpc = "rejected" /\ retries = 0 /\ probes = <<>>

\* C7: with retries >= 1 and every probe failing, the call rejects after
\* exactly `retries` probes with the error of the last of them; it never
\* issues more than `retries` probes.
C7_FailsWithLastError ==
  /\ wpc # "idle" => Len(probes) <= retries
  /\ wpc = "rejected" /\ retries >= 1 =>
       /\ Len(probes) = retries
       /\ \A k \in DOMAIN probes : probes[k] # "ok"
       /\ werror = probes[retries]

\* C7 witness: three probes failed, the last with another error than the
\* first, and the call has rejected.
C7_Witness ==
  /\ wpc = "rejected" /\ retries = 3 /\ Len(probes) = 3
  /\ probes[1] # probes[3] /\ werror = probes[3]

\* C8: an executeQuery call issues one query to the pool and no more; it
\* throws if and only if the pool rejected, with the pool's error, and
\* otherwise returns the pool's result as it is.
C8_QueryPassthrough ==
  \A q \in ExecIds :
    /\ Len(poolCalls[q]) = (IF epc[q] = "idle" THEN 0 ELSE 1)
    /\ epc[q] = "threw" =>
         poolReply[q].kind = "rejected" /\ eout[q] = poolReply[q]
    /\ epc[q] = "returned" =>
         poolReply[q].kind = "resolved" /\ eout[q] = poolReply[q]
    /\ poolReply[q].kind = "rejected" => epc[q] = "threw"
    /\ poolReply[q].kind = "resolved" => epc[q] = "returned"

\* C8 witness: the pool rejected a call's query and the call has thrown.
C8_Witness ==
  \E q \in ExecIds :
    /\ epc[q] = "threw" /\ Len(poolCalls[q]) = 1
    /\ eout[q].error = "relation does not exist"

\* C9: what an executeQuery call returns holds none of the rows that
\* transaction calls in flight at that moment had inserted, and all rows of
\* every transaction call that had returned successfully by then; a SELECT
\* func runs through its own client sees the rows func has inserted.
C9_Isolation ==
  /\ \A q \in ExecIds :
       epc[q] = "returned" =>
         /\ eout[q].rows \cap ewhen[q].uncommitted = {}
         /\ \A t \in ewhen[q].done :
              outcome[t].kind = "returned" => written[t] \subseteq eout[q].rows
  /\ \A t \in TxIds : readDone[t] => written[t] \subseteq uread[t]

\* C9 witness: an executeQuery returned while a transaction call was in flight
\* with a row inserted; func saw that row through its client; the transaction
\* call has since returned successfully.
C9_Witness ==
  \E q \in ExecIds, t \in TxIds :
    /\ epc[q] = "returned"
    /\ written[t] # {} /\ written[t] \subseteq ewhen[q].uncommitted
    /\ readDone[t] /\ written[t] \subseteq uread[t]
    /\ Done(t) /\ outcome[t].kind = "returned" /\ written[t] \subseteq committed

\* C10: once a transaction call whose func rejected after inserting rows has
\* failed, none of those rows is in what an executeQuery returns afterwards,
\* nor visible on any connection the pool could run a query on.  (The table
\* only grows in this model, so what was committed before the call is still
\* there.)
C10_RollbackReverts ==
  \A t \in TxIds :
    Done(t) /\ caught[t] = UnitError =>
      /\ outcome[t].kind = "threw"
      /\ \A c \in Conns \ leased : Visible(c) \cap written[t] = {}
      /\ \A q \in ExecIds :
           epc[q] = "returned" /\ t \in ewhen[q].done =>
             eout[q].rows \cap written[t] = {}

\* C10 witness: func inserted a row and rejected, the call failed, and an
\* executeQuery made afterwards has returned.
C10_Witness ==
  \E q \in ExecIds, t \in TxIds :
    /\ Done(t) /\ caught[t] = UnitError /\ written[t] # {}
    /\ outcome[t].kind = "threw"
    /\ epc[q] = "returned" /\ t \in ewhen[q].done

\* C11 (as claimed): when func resolved and COMMIT rejected, ROLLBACK is issued
\* on the call's own connection and the call rejects with COMMIT's error; it
\* does not resolve.
C11_CommitFailurePropagates ==
  \A t \in TxIds :
    Done(t) /\ unitOut[t] \in Values /\ Rejected(t, "COMMIT") =>
      /\ \E k \in DOMAIN log[t] : log[t][k].op = "ROLLBACK" /\ log[t][k].own
      /\ outcome[t] = [kind |-> "threw", val |-> CommitError]

\* C12 (as claimed): when BEGIN rejected, the call rejects with BEGIN's error,
\* func was never called, COMMIT was never issued and the connection has been
\* released.
C12_BeginFailurePropagates ==
  \A t \in TxIds :
    Done(t) /\ Rejected(t, "BEGIN") =>
      /\ outcome[t] = [kind |-> "threw", val |-> BeginError]
      /\ unitOut[t] = Undefined /\ written[t] = {} /\ ~readDone[t]
      /\ ~Issued(t, "INSERT") /\ ~Issued(t, "SELECT")
      /\ ~Issued(t, "COMMIT")
      /\ Releases(log[t]) = 1

\* C13: when connect() rejected, the call has rejected with that error and
\* done nothing else: no statement was issued, func was not called, nothing
\* was released and nothing was caught; while connect() is pending the call
\* has issued nothing either.
C13_AcquireFailurePropagates ==
  \A t \in TxIds :
    /\ tpc[t] = "connect" => log[t] = <<>> /\ client[t] = NoConn
    /\ Done(t) /\ outcome[t].val = ConnectError =>
         /\ outcome[t].kind = "threw"
         /\ log[t] = <<>>
         /\ caught[t] = Undefined
         /\ unitOut[t] = Undefined /\ written[t] = {} /\ ~readDone[t]
         /\ client[t] = NoConn

\* C13 witness: a call whose connect() rejected has completed.
C13_Witness ==
  \E t \in TxIds :
    Done(t) /\ outcome[t] = [kind |-> "threw", val |-> ConnectError]

\* C14: a step in which the pool's 'error' event is handled (a line is logged,
\* or the process would die) leaves every waitForConnection, executeQuery and
\* transaction call exactly where it was, with the outcome it had, and the
\* process alive.
C14_IdleErrorOnlyLogged ==
  [][(console' # console \/ crashed' # crashed) =>
       /\ UNCHANGED <<waitVars, execVars, txVars>>
       /\ console' \in {IdleErrorListener(m) : m \in IdleErrors}
       /\ ~crashed /\ ~crashed']_vars

\* C14 witness: the listener has logged an 'error' event while a transaction
\* call is in flight inside func, and the process is alive.
C14_Witness ==
  /\ console # <<>> /\ ~crashed
  /\ \E t \in TxIds : tpc[t] = "func" /\ written[t] # {}

\* C15: in waitForConnection a backoff sleep happens only after a failed probe
\* when attempts remain: no sleep is pending once the retries-th probe has
\* failed, and a call with retries = n performs at most n - 1 sleeps.
C15_SleepsOnlyBetweenProbes ==
  /\ wpc = "sleep" => Len(probes) < retries
  /\ (wpc # "idle" /\ retries >= 1) => Len(sleeps) <= retries - 1

\* The terminal states of a transaction call.
Committed(t) == Resolved(t, "COMMIT") /\ outcome[t].kind = "returned"
RolledBack(t) == Resolved(t, "ROLLBACK") /\ outcome[t].kind = "threw"
AcquireFailed(t) == ~Acquired(t) /\ log[t] = <<>> /\ outcome[t].kind = "threw"
\* ROLLBACK was issued, whatever the engine answered.
RollbackIssued(t) == Issued(t, "ROLLBACK") /\ outcome[t].kind = "threw"

\* C16 (as stated): every completed transaction call is in exactly one of
\* Committed, RolledBack (ROLLBACK issued and succeeded, call fails) and
\* AcquireFailed, and it returned successfully iff it is Committed.
C16_ThreeTerminalStates ==
  \A t \in TxIds :
    Done(t) =>
      /\ Cardinality({k \in 1..3 :
           <<Committed(t), RolledBack(t), AcquireFailed(t)>>[k]}) = 1
      /\ outcome[t].kind = "returned" <=> Committed(t)

\* C16 (amended): every completed transaction call is in exactly one of
\* Committed, rollback issued (ROLLBACK was issued, and either succeeded or
\* itself failed; the call fails) and AcquireFailed, and it returned
\* successfully iff it is Committed.
C16_TerminalStatesRollbackIssued ==
  \A t \in TxIds :
    Done(t) =>
      /\ Cardinality({k \in 1..3 :
           <<Committed(t), RollbackIssued(t), AcquireFailed(t)>>[k]}) = 1
      /\ outcome[t].kind = "returned" <=> Committed(t)

\* C16 witness: a call whose COMMIT rejected and whose ROLLBACK rejected too
\* has completed by failing, in none of the three states as stated.
C16_Witness ==
  \E t \in TxIds :
    /\ Done(t) /\ caught[t] = CommitError /\ Rejected(t, "ROLLBACK")
    /\ outcome[t].kind = "threw"
    /\ ~Committed(t) /\ ~RolledBack(t) /\ ~AcquireFailed(t)

\* C17: a transaction call that returned successfully has seen on its
\* connection, in order: BEGIN, then the statements func issued (every one of
\* them), then COMMIT, then the release; BEGIN and COMMIT once each, no
\* ROLLBACK, all on the connection it acquired, and nothing after the release.
C17_SuccessPathOrder ==
  \A t \in TxIds :
    Done(t) /\ outcome[t].kind = "returned" =>
      LET n == Len(log[t])
          unit == SubSeq(log[t], 2, n - 2)
      IN /\ n >= 3
         /\ log[t][1].op = "BEGIN" /\ log[t][1].ok
         /\ log[t][n - 1].op = "COMMIT" /\ log[t][n - 1].ok
         /\ log[t][n].op = "release"
         /\ \A k \in DOMAIN unit : unit[k].op \in {"INSERT", "SELECT"} /\ unit[k].ok
         /\ Cardinality({k \in DOMAIN unit : unit[k].op = "INSERT"})
              = Cardinality(written[t])
         /\ Cardinality({k \in DOMAIN unit : unit[k].op = "SELECT"})
              = (IF readDone[t] THEN 1 ELSE 0)
         /\ \A k \in DOMAIN log[t] : log[t][k].own

\* C17 witness: a call whose func wrote a row and read the table has returned
\* successfully.
C17_Witness ==
  \E t \in TxIds :
    /\ Done(t) /\ outcome[t].kind = "returned"
    /\ written[t] # {} /\ readDone[t]
    /\ Len(log[t]) = 5

\* C18: however transaction calls interleave, every statement and release of
\* a call goes to the connection that call acquired; the connections leased
\* are held by in-flight calls, one each at most, so they never outnumber the
\* in-flight calls; a completed call holds no connection, and once no call is
\* in flight no connection is leased.
C18_LeasesBoundedByCalls ==
  /\ \A t \in TxIds : \A k \in DOMAIN log[t] : log[t][k].own
  /\ leased \subseteq {client[t] : t \in InFlight}
  /\ Cardinality(leased) <= Cardinality(InFlight)
  /\ \A t \in TxIds : Done(t) => client[t] = NoConn
  /\ InFlight = {} => leased = {}

\* C18 witness: two calls are in flight at once, each with statements issued
\* on a connection of its own, one in func and the other in its catch block.
C18_Witness ==
  \E t, u \in TxIds :
    /\ tpc[t] = "func" /\ Issued(t, "INSERT")
    /\ tpc[u] = "rollback" /\ Rejected(u, "COMMIT")
    /\ client[t] # client[u]
    /\ Cardinality(leased) = 2

\* C19: when every probe query and every sleep eventually completes, a
\* waitForConnection call eventually resolves or rejects, and it never issues
\* more than `retries` probe queries.
C19_WaitTerminates ==
  /\ (wpc # "idle") ~> (wpc \in {"resolved", "rejected"})
  /\ [](Len(probes) <= retries)

\* C19 witness: a call with the largest number of retries has ended after
\* that many failed probes.
C19_Witness ==
  /\ wpc = "rejected"
  /\ retries = MaxRetries
  /\ Len(probes) = retries
  /\ \A k \in DOMAIN probes : probes[k] # "ok"

====
